---------------------------- MODULE Spec2Model ----------------------------
(***************************************************************************)
(* Model of the benchmark harness of mikeevmm/sudoku:                      *)
(*   src/performance/benchmark_annealing.py  (the reanneal control loop,   *)
(*       four near-identical variants: paper/top1465 x geometric/remelt),  *)
(*   src/performance/benchmark_projection.py (the thread-pool benchmark).  *)
(*                                                                         *)
(* Time is in seconds, on a grid of Quantum seconds.  perf_counter() has   *)
(* an unspecified origin and only differences are read, so the clock is    *)
(* re-based to 0 at every trial start.                                     *)
(*                                                                         *)
(* A temperature multiplier is a product of the factors the code applies,  *)
(* 0.5 (on GLASS) and 0.99 (remelt decay); it is kept exactly, as the pair *)
(* of exponents [h, d] standing for 0.5^h * 0.99^d.  2 and 99/100 are      *)
(* multiplicatively independent, so two multipliers are equal exactly when *)
(* their pairs are.                                                        *)
(***************************************************************************)
EXTENDS Integers, Sequences, FiniteSets, TLC

(***************************************************************************)
(* Bounds of the model and constants of the program.                       *)
(***************************************************************************)
\* Number of puzzles in the corpus (glob('paper/*.sudoku') or top1465 lines).
NumPuzzles == 2
\* Granularity of the clock, in seconds.
Quantum == 30
\* A solver process runs for 1..MaxDur quanta when nothing cuts it off.
MaxDur == 4
\* range(4), np.array([-1., -1., -1., -1.]), "/ 4."
NumTrials == 4
\* "Give ourselves 1m30s": the 90 of lines 70 and 86.
TrialBudget == 90
\* The sentinel every slot of times starts with.
Sentinel == -1

Max(a, b) == IF a >= b THEN a ELSE b
Min(a, b) == IF a <= b THEN a ELSE b

RECURSIVE Pow(_, _)
Pow(b, e) == IF e = 0 THEN 1 ELSE b * Pow(b, e - 1)

RECURSIVE GCD(_, _)
GCD(a, b) == IF b = 0 THEN a ELSE GCD(b, a % b)

(***************************************************************************)
(* Python string operations used on the solver's stdout.  A string is a    *)
(* sequence of one-character strings.                                      *)
(***************************************************************************)
NL == "\n"
Whitespace == {" ", NL}

\* str.find: the 0-based index of the first occurrence, or -1.
Find(s, c) ==
    IF \E k \in 1..Len(s) : s[k] = c
    THEN (CHOOSE k \in 1..Len(s) : s[k] = c /\ \A j \in 1..(k-1) : s[j] # c) - 1
    ELSE -1

\* Python's normalisation of a slice index against a length.
SliceIndex(idx, n) == IF idx < 0 THEN Max(idx + n, 0) ELSE Min(idx, n)

\* s[lo:hi]
PySlice(s, lo, hi) ==
    LET a == SliceIndex(lo, Len(s))
        b == SliceIndex(hi, Len(s))
    IN  IF a >= b THEN <<>> ELSE SubSeq(s, a + 1, b)

\* str.strip()
RECURSIVE LStrip(_)
LStrip(s) == IF s # <<>> /\ Head(s) \in Whitespace THEN LStrip(Tail(s)) ELSE s
RECURSIVE RStrip(_)
RStrip(s) ==
    IF s # <<>> /\ s[Len(s)] \in Whitespace
    THEN RStrip(SubSeq(s, 1, Len(s) - 1)) ELSE s
Strip(s) == RStrip(LStrip(s))

\* state = output[:output.find('\n')].strip()
ParseState(output) == Strip(PySlice(output, 0, Find(output, NL)))
\* final = output[output.find('\n')+1:].strip()
ParseFinal(output) == Strip(PySlice(output, Find(output, NL) + 1, Len(output)))

GLASS == <<"G", "L", "A", "S", "S">>
SUCCESS == <<"S", "U", "C", "C", "E", "S", "S">>
EXHAUSTED == <<"E", "X", "H", "A", "U", "S", "T", "E", "D">>

(***************************************************************************)
(* What the external solver can answer (it is outside the repository): an  *)
(* exit code and a stdout.                                                 *)
(***************************************************************************)
Stdouts ==
    { GLASS \o <<NL, "1">>,            \* GLASS with terminal board 1
      GLASS \o <<NL, "2">>,            \* GLASS with terminal board 2
      SUCCESS \o <<NL, "3">>,          \* SUCCESS with a solved board
      EXHAUSTED \o <<NL>>,             \* a tag the annealing loop does not know
      SUCCESS,                         \* no line break at all
      <<>> }                           \* empty output
Responses ==
    [returncode : {0}, stdout : Stdouts] \cup [returncode : {1}, stdout : {<<>>}]
Durations == { k * Quantum : k \in 1..MaxDur }
\* Time that may pass between two reads of the clock by the loop itself.
Lags == {0, Quantum}

(***************************************************************************)
(* Temperature multipliers.                                                *)
(***************************************************************************)
\* start_temp = 1.
One == [h |-> 0, d |-> 0]
\* Mutant of Half: the GLASS branch leaves start_temp as it is.
Half_forgotten(t) == t
\* start_temp *= .5
Half(t) == [t EXCEPT !.h = @ + 1]
\* start_temp *= 0.99
Decay(t) == [t EXCEPT !.d = @ + 1]
\* Mutant of BelowFloor: the floor is never found crossed.
BelowFloor_never(t) == FALSE
\* start_temp < 0.01, cross-multiplied: 0.5^h * (99/100)^d < 1/100
BelowFloor(t) == 100 * Pow(99, t.d) < Pow(2, t.h) * Pow(100, t.d)


(***************************************************************************)
(* Exact fractions for the figures of a log row; NaN is what np.average    *)
(* gives for an empty selection (numpy warns and does not raise).          *)
(***************************************************************************)
Rat(n, d) == LET g == GCD(n, d) IN [num |-> n \div g, den |-> d \div g]
NaN == [num |-> 0, den |-> 0]

RECURSIVE SumSeq(_)
SumSeq(s) == IF s = <<>> THEN 0 ELSE Head(s) + SumSeq(Tail(s))

\* times[times < 0.]
Negative(ts) == SelectSeq(ts, LAMBDA t : t < 0)
\* Mutant of NonNegative: the selection left out, the sentinels averaged in.
NonNegative_all(ts) == ts
\* times[times >= 0.]
NonNegative(ts) == SelectSeq(ts, LAMBDA t : t >= 0)
\* np.count_nonzero(a)
CountNonzero(ts) == Len(SelectSeq(ts, LAMBDA t : t # 0))
\* np.average(a)
Average(ts) == IF ts = <<>> THEN NaN ELSE Rat(SumSeq(ts), Len(ts))
\* (times < 0).all()
AllNegative(ts) == \A k \in 1..Len(ts) : ts[k] < 0

\* np.count_nonzero(times[times < 0.]) / 4.
FractionUnsolved(ts) == Rat(CountNonzero(Negative(ts)), NumTrials)
\* geometric variants: np.average(times[times >= 0.])
AverageGeometric(ts) == Average(NonNegative(ts))
\* remelt variants: np.average(times[times >= 0.]) if not (times < 0).all() else 0.
AverageRemelt(ts) == IF ~AllNegative(ts) THEN Average(NonNegative(ts)) ELSE Rat(0, 1)

(***************************************************************************)
(* The four annealing benchmarks.                                          *)
(***************************************************************************)
Variants == {"paper_geometric", "paper_remelt", "top1465_geometric", "top1465_remelt"}
Policy(v) == IF v \in {"paper_geometric", "top1465_geometric"} THEN "geometric" ELSE "remelt"
\* The name each benchmark opens its log under.
LogFile(v) ==
    CASE v = "paper_remelt"      -> "annealing.remelt.paper.log"
      [] v = "paper_geometric"   -> "annealing.paper.log"
      [] v = "top1465_geometric" -> "annealing.remelt.top1465.log"
      [] v = "top1465_remelt"    -> "annealing.remelt.top1465.log"

AverageSolveTime(v, ts) ==
    IF Policy(v) = "geometric" THEN AverageGeometric(ts) ELSE AverageRemelt(ts)
\* The row written for puzzle idx: f'{i}\t{...}\t{...}\n'
Row(v, idx, ts) ==
    [index |-> idx, unsolved |-> FractionUnsolved(ts), average |-> AverageSolveTime(v, ts)]
Header == "# <Puzzle index>\t<Unsolved percentage>\t<Average solve time (ms)>\n"

\* Mutant of DeadlinePassed: the operands of the subtraction swapped.
DeadlinePassed_swapped(n, st) == st - n > TrialBudget
\* if time.perf_counter() - start_time > 90: break
DeadlinePassed(n, st) == n - st > TrialBudget
\* Mutant of TimeBox: every invocation is given the whole budget.
TimeBox_whole(n, st) == TrialBudget
\* timeout=(start_time + 90 - time.perf_counter())
TimeBox(n, st) == st + TrialBudget - n
\* Mutant of ElapsedMs: the conversion to milliseconds left out.
ElapsedMs_seconds(n, st) == n - st
\* (time.perf_counter() - start_time) * 1000
ElapsedMs(n, st) == (n - st) * 1000
\* Mutant of RoundTemp: the remelt loop without its 0.99 decay.
RoundTemp_nodecay(policy, t) == IF BelowFloor(t) THEN One ELSE t
\* The multiplier the next schedule is built from (top of the while loop).
\* geometric: if start_temp < 0.01: start_temp = 1.
\* remelt:    if start_temp < 0.01: start_temp = 1.  else: start_temp *= 0.99
RoundTemp(policy, t) ==
    IF BelowFloor(t) THEN One
    ELSE IF policy = "remelt" THEN Decay(t) ELSE t
\* The schedule piped to the solver: the geometric curve from start_temp, or
\* the reference profile with its temperature column times start_temp.
GenSchedule(policy, t) == [policy |-> policy, scale |-> t]
\* np.array([-1., -1., -1., -1.])
FreshTimes == [k \in 1..NumTrials |-> Sentinel]


(***************************************************************************)
(* State of one run of benchmark_annealing.                                *)
(***************************************************************************)
VARIABLES
    variant,      \* which of the four benchmark functions runs
    pc,           \* where the control of the function is
    outfile,      \* the log: [name, open, header, rows]
    i,            \* index of the current puzzle (enumerate)
    iteration,    \* for iteration in range(4)
    times,        \* the outcome vector of the current puzzle
    now,          \* time.perf_counter()
    start_time,   \* start_time of the current trial
    start_temp,   \* start_temp of the current trial
    args,         \* the extra arguments of the solver: [] or [hintfile.name]
    hintfile,     \* the NamedTemporaryFile of the trial: [open, data]
    schedule,     \* the schedule generated for the next invocation
    error,        \* the exception that ended the run, or "none"
    \* history, read by the properties only
    check_elapsed,\* elapsed time the last deadline check saw
    expired,      \* the current trial has seen its deadline pass
    returned,     \* elapsed time at which the last run() returned, 0 if none
    hist          \* the solver processes the current trial started, in order

avars == << variant, pc, outfile, i, iteration, times, now, start_time,
            start_temp, args, hintfile, schedule, error, check_elapsed,
            expired, returned, hist >>

Last(s) == s[Len(s)]
SetLastResult(h, r) == [h EXCEPT ![Len(h)].result = r]
SetLastFinal(h, f) == [h EXCEPT ![Len(h)].final = f]
ClosedFile == [open |-> FALSE, data |-> <<>>]

\* with open(LOG, 'w') as outfile: outfile.write(header)
AInit ==
    /\ variant \in Variants
    /\ pc = "puzzle"
    /\ outfile = [name |-> LogFile(variant), open |-> TRUE, header |-> Header, rows |-> <<>>]
    /\ i = 0
    /\ iteration = 0
    /\ times = FreshTimes
    /\ now = 0
    /\ start_time = 0
    /\ start_temp = One
    /\ args = <<>>
    /\ hintfile = ClosedFile
    /\ schedule = GenSchedule(Policy(variant), One)
    /\ error = "none"
    /\ check_elapsed = 0
    /\ expired = FALSE
    /\ returned = 0
    /\ hist = <<>>

\* for i, puzzle in enumerate(...): times = np.array([-1., -1., -1., -1.])
StartPuzzle ==
    /\ pc = "puzzle"
    /\ i < NumPuzzles
    /\ times' = FreshTimes
    /\ iteration' = 0
    /\ pc' = "trial"
    /\ UNCHANGED << variant, outfile, i, now, start_time, start_temp, args,
                    hintfile, schedule, error, check_elapsed, expired, returned, hist >>

\* The puzzles are exhausted: the with block closes the log.
Finish ==
    /\ pc = "puzzle"
    /\ i = NumPuzzles
    /\ outfile' = [outfile EXCEPT !.open = FALSE]
    /\ pc' = "done"
    /\ UNCHANGED << variant, i, iteration, times, now, start_time, start_temp,
                    args, hintfile, schedule, error, check_elapsed, expired, returned, hist >>

\* start_time = time.perf_counter()
TrialClock(n, st) == n
\* Only differences of clock readings are ever used, so the model moves the
\* origin of the clock to the start of each trial.
Rebase(t, origin) == t - origin

\* Mutant of StartTrial: start_time, start_temp and args are not assigned
\* again.
StartTrial_stale ==
    /\ pc = "trial"
    /\ hintfile' = [open |-> TRUE, data |-> <<>>]
    /\ now' = Rebase(now, now)
    /\ start_time' = Rebase(start_time, now)
    /\ expired' = FALSE
    /\ returned' = 0
    /\ hist' = <<>>
    /\ check_elapsed' = 0
    /\ pc' = "check"
    /\ UNCHANGED << variant, outfile, i, iteration, times, schedule, error,
                    start_temp, args >>

\* with NamedTemporaryFile(delete=True) as hintfile:
\*     start_time = time.perf_counter(); start_temp = 1.; args = []
StartTrial ==
    /\ pc = "trial"
    /\ hintfile' = [open |-> TRUE, data |-> <<>>]
    /\ now' = Rebase(now, now)
    /\ start_time' = Rebase(TrialClock(now, start_time), now)
    /\ start_temp' = One
    /\ args' = <<>>
    /\ expired' = FALSE
    /\ returned' = 0
    /\ hist' = <<>>
    /\ check_elapsed' = 0
    /\ pc' = "check"
    /\ UNCHANGED << variant, outfile, i, iteration, times, schedule, error >>

\* The clock of the model stops here; no trial gets this far.
MaxClock == TrialBudget + 2 * Quantum

\* Mutant of BreakOnDeadline: "continue" in place of "break".
BreakOnDeadline_spin ==
    /\ expired' = TRUE
    /\ pc' = "check"
    /\ UNCHANGED << start_temp, schedule, hist >>

\* if time.perf_counter() - start_time > 90: break
BreakOnDeadline ==
    /\ expired' = TRUE
    /\ pc' = "trial_end"
    /\ UNCHANGED << start_temp, schedule, hist >>

\* Mutant of StartSolver: the process is started and not waited for.
StartSolver_popen ==
    /\ start_temp' = RoundTemp(Policy(variant), start_temp)
    /\ schedule' = GenSchedule(Policy(variant), start_temp')
    /\ hist' = Append(hist, [ base    |-> schedule'.scale,
                              args    |-> args,
                              hint    |-> hintfile.data,
                              final   |-> <<>>,
                              checked |-> check_elapsed',
                              timeout |-> TimeBox(now', start_time),
                              result  |-> "RUNNING" ])
    /\ pc' = "check"
    /\ UNCHANGED expired

\* The deadline has not passed: the multiplier is reset or decayed, the
\* schedule is generated, and run() starts the solver process with the time
\* box computed from the clock:
\* run([annealing, puzzlefile, '-', *args], input=schedule, timeout=...)
StartSolver ==
    /\ start_temp' = RoundTemp(Policy(variant), start_temp)
    /\ schedule' = GenSchedule(Policy(variant), start_temp')
    /\ hist' = Append(hist, [ base    |-> schedule'.scale,
                              args    |-> args,
                              hint    |-> hintfile.data,
                              final   |-> <<>>,
                              checked |-> check_elapsed',
                              timeout |-> TimeBox(now', start_time),
                              result  |-> "RUNNING" ])
    /\ pc' = "running"
    /\ UNCHANGED expired

\* Top of "while True": the deadline check, then the schedule and the call.
\* lag is the time that has passed since the loop last read the clock.
BeginRound(lag) ==
    /\ pc = "check"
    /\ now + lag <= MaxClock
    /\ now' = now + lag
    /\ check_elapsed' = now' - start_time
    /\ returned' = 0
    /\ IF DeadlinePassed(now', start_time) THEN BreakOnDeadline ELSE StartSolver
    /\ UNCHANGED << variant, outfile, i, iteration, times, start_time, args,
                    hintfile, error >>

\* Mutant of OnTimeoutExpired: "continue" in place of "break".
OnTimeoutExpired_continue ==
    /\ expired' = TRUE
    /\ pc' = "check"
    /\ UNCHANGED << outfile, error, hintfile >>

\* Mutant of OnTimeoutExpired: TimeoutExpired is not caught.
OnTimeoutExpired_uncaught ==
    /\ expired' = TRUE
    /\ error' = "TimeoutExpired"
    /\ hintfile' = ClosedFile
    /\ outfile' = [outfile EXCEPT !.open = FALSE]
    /\ pc' = "aborted"

\* except TimeoutExpired: break
OnTimeoutExpired ==
    /\ expired' = TRUE
    /\ pc' = "trial_end"
    /\ UNCHANGED << outfile, error, hintfile >>

\* The time box fires before the process ends: run() kills the process and
\* raises TimeoutExpired.  A process that would end exactly when the time box
\* fires may go either way; a time box <= 0 fires at once.
SolverTimeout(dur) ==
    /\ pc = "running"
    /\ dur >= Last(hist).timeout
    /\ now' = now + Max(Last(hist).timeout, 0)
    /\ hist' = SetLastResult(hist, "TIMEOUT")
    /\ OnTimeoutExpired
    /\ UNCHANGED << variant, i, iteration, times, start_time, start_temp, args,
                    schedule, check_elapsed, returned >>

\* Mutant of RaiseFatal: the exit code is not looked at and the loop goes on.
RaiseFatal_ignored ==
    /\ pc' = "check"
    /\ UNCHANGED << error, hintfile, outfile, start_temp, args, times, expired >>

\* raise Exception(stdout + '\n' + stderr): nothing catches it, the with blocks
\* release the hint file and close the log, and the run ends.
RaiseFatal ==
    /\ error' = "Exception"
    /\ hintfile' = ClosedFile
    /\ outfile' = [outfile EXCEPT !.open = FALSE]
    /\ pc' = "aborted"
    /\ UNCHANGED << start_temp, args, times, expired >>

\* Mutant of OnGlass: the hint file is appended to, not truncated.
OnGlass_append(final) ==
    /\ start_temp' = Half(start_temp)
    /\ hintfile' = [hintfile EXCEPT !.data = hintfile.data \o final]
    /\ args' = << "hintfile" >>
    /\ pc' = "check"
    /\ UNCHANGED << times, outfile, error, expired >>

\* if state == 'GLASS': start_temp *= .5; hintfile.seek(0); hintfile.truncate();
\* hintfile.write(final); hintfile.flush(); args = [hintfile.name]; continue
OnGlass(final) ==
    /\ start_temp' = Half(start_temp)
    /\ hintfile' = [hintfile EXCEPT !.data = final]
    /\ args' = << "hintfile" >>
    /\ pc' = "check"
    /\ UNCHANGED << times, outfile, error, expired >>

\* elif state == 'SUCCESS': times[iteration] = elapsed; break
OnSuccess ==
    /\ times' = [times EXCEPT ![iteration + 1] = ElapsedMs(now', start_time)]
    /\ pc' = "trial_end"
    /\ UNCHANGED << start_temp, args, hintfile, outfile, error, expired >>

\* Mutant of OnOtherState: the hint is dropped on an unknown state line.
OnOtherState_reset ==
    /\ pc' = "check"
    /\ args' = <<>>
    /\ hintfile' = [hintfile EXCEPT !.data = <<>>]
    /\ UNCHANGED << start_temp, times, outfile, error, expired >>

\* Neither branch is taken: control falls to the top of the while loop.
OnOtherState ==
    /\ pc' = "check"
    /\ UNCHANGED << start_temp, args, hintfile, times, outfile, error, expired >>

\* What the loop calls the outcome of a returned process.
Outcome(resp) ==
    IF resp.returncode # 0 THEN "NONZERO"
    ELSE IF ParseState(resp.stdout) = GLASS THEN "GLASS"
    ELSE IF ParseState(resp.stdout) = SUCCESS THEN "SUCCESS"
    ELSE "OTHER"

\* The terminal board a GLASS response carries: what follows its first line.
Returned(resp) ==
    IF Outcome(resp) = "GLASS" THEN ParseFinal(resp.stdout) ELSE <<>>

\* Lines 91-109 on a returned process.
HandleResult(resp) ==
    IF resp.returncode # 0 THEN RaiseFatal
    ELSE IF ParseState(resp.stdout) = GLASS THEN OnGlass(ParseFinal(resp.stdout))
    ELSE IF ParseState(resp.stdout) = SUCCESS THEN OnSuccess
    ELSE OnOtherState

\* The time between the return of run() and the next read of the clock.  The
\* SUCCESS branch reads the clock itself; the other branches leave the next
\* read to the top of the loop.
ReadLag(resp, lag) == IF Outcome(resp) = "SUCCESS" THEN lag ELSE 0

\* The process ends within its time box after dur seconds and the loop
\* handles the result.
SolverReturns(resp, dur, lag) ==
    /\ pc = "running"
    /\ Last(hist).timeout > 0
    /\ dur <= Last(hist).timeout
    /\ returned' = now + dur - start_time
    /\ now' = now + dur + ReadLag(resp, lag)
    /\ hist' = SetLastFinal(SetLastResult(hist, Outcome(resp)), Returned(resp))
    /\ HandleResult(resp)
    /\ UNCHANGED << variant, i, iteration, start_time, schedule, check_elapsed >>

\* Mutant of EndTrial: the hint file is left open when the trial ends.
EndTrial_leak ==
    /\ pc = "trial_end"
    /\ iteration' = iteration + 1
    /\ pc' = IF iteration + 1 < NumTrials THEN "trial" ELSE "aggregate"
    /\ check_elapsed' = 0
    /\ expired' = FALSE
    /\ returned' = 0
    /\ hist' = <<>>
    /\ UNCHANGED << variant, outfile, i, times, error, now, start_time,
                    start_temp, args, schedule, hintfile >>

\* The with block of the trial ends: the hint file is closed and deleted.
\* The locals of the trial (clock readings, start_temp, args, schedule) keep
\* the values the trial left in them; the record of the trial kept for the
\* properties is cleared.
EndTrial ==
    /\ pc = "trial_end"
    /\ hintfile' = ClosedFile
    /\ iteration' = iteration + 1
    /\ pc' = IF iteration + 1 < NumTrials THEN "trial" ELSE "aggregate"
    /\ check_elapsed' = 0
    /\ expired' = FALSE
    /\ returned' = 0
    /\ hist' = <<>>
    /\ UNCHANGED << variant, outfile, i, times, error, now, start_time,
                    start_temp, args, schedule >>

\* Mutant of Aggregate: the row replaces what the log held.
Aggregate_rewrite ==
    /\ pc = "aggregate"
    /\ outfile' = [outfile EXCEPT !.rows = << Row(variant, i, times) >>]
    /\ i' = i + 1
    /\ pc' = "puzzle"
    /\ UNCHANGED << variant, iteration, times, now, start_time, start_temp,
                    args, hintfile, schedule, error, check_elapsed, expired, returned, hist >>

\* print(times); outfile.write(row)
Aggregate ==
    /\ pc = "aggregate"
    /\ outfile' = [outfile EXCEPT !.rows = Append(@, Row(variant, i, times))]
    /\ i' = i + 1
    /\ pc' = "puzzle"
    /\ UNCHANGED << variant, iteration, times, now, start_time, start_temp,
                    args, hintfile, schedule, error, check_elapsed, expired, returned, hist >>

(***************************************************************************)
(* benchmark_projection: four repetitions of a puzzle on a thread pool.    *)
(***************************************************************************)
VARIABLES
    p_variant,    \* "paper" or "top1465"
    p_pc,         \* where the main thread is
    p_outfile,    \* the log
    p_i,          \* index of the current puzzle
    p_workers,    \* the four submitted calls: [state, value]
    p_times,      \* the results the main thread has taken from map(), in order
    p_error       \* the exception that ended the run, or "none"

pvars == << p_variant, p_pc, p_outfile, p_i, p_workers, p_times, p_error >>

\* timeout=90
ProjTimeout == 90
ALLSATISFIED == <<"A", "L", "L", " ", "S", "A", "T", "I", "S", "F", "I", "E", "D">>
\* What the projection solver can answer.
ProjStdouts ==
    { EXHAUSTED \o <<NL, "1">>,
      ALLSATISFIED \o <<NL, "2">>,
      GLASS \o <<NL, "3">>,            \* a tag the worker does not know
      <<>> }
ProjResponses ==
    [returncode : {0}, stdout : ProjStdouts] \cup [returncode : {1}, stdout : {<<>>}]
ProjVariants == {"paper", "top1465"}
ProjLogFile(v) == IF v = "paper" THEN "projection.log" ELSE "projection.top1465.log"

Num(n) == [tag |-> "num", v |-> n]
\* A function that ends without a return statement returns None.
None == [tag |-> "None", v |-> 0]
Workers == 1..NumTrials
Idle == [state |-> "idle", value |-> None]

\* The body of _thread_benchmark_paper / _thread_benchmark_top1465 once run()
\* has returned after dur seconds: what the call returns, or "raised".
WorkerReturn(resp, dur) ==
    IF resp.returncode # 0 THEN [state |-> "raised", value |-> None]
    ELSE IF ParseState(resp.stdout) = EXHAUSTED
         THEN [state |-> "returned", value |-> Num(-1)]
    ELSE IF ParseState(resp.stdout) = ALLSATISFIED
         THEN [state |-> "returned", value |-> Num(ElapsedMs(dur, 0))]
    ELSE [state |-> "returned", value |-> None]
\* except TimeoutExpired: return -1
WorkerTimeout == [state |-> "returned", value |-> Num(-1)]

PInit ==
    /\ p_variant \in ProjVariants
    /\ p_pc = "puzzle"
    /\ p_outfile = [name |-> ProjLogFile(p_variant), open |-> TRUE,
                    header |-> Header, rows |-> <<>>]
    /\ p_i = 0
    /\ p_workers = [w \in Workers |-> Idle]
    /\ p_times = <<>>
    /\ p_error = "none"

\* with ThreadPoolExecutor(max_workers=8) as executor: executor.map(f, 4 copies)
\* map() submits the four calls at once; the pool has a thread for each.
PSubmit ==
    /\ p_pc = "puzzle"
    /\ p_i < NumPuzzles
    /\ p_workers' = [w \in Workers |-> [state |-> "running", value |-> None]]
    /\ p_times' = <<>>
    /\ p_pc' = "map"
    /\ UNCHANGED << p_variant, p_outfile, p_i, p_error >>

\* The solver of worker w ends after dur seconds, within the time box.
PWorkerReturns(w, resp, dur) ==
    /\ p_workers[w].state = "running"
    /\ dur <= ProjTimeout
    /\ p_workers' = [p_workers EXCEPT ![w] = WorkerReturn(resp, dur)]
    /\ UNCHANGED << p_variant, p_pc, p_outfile, p_i, p_times, p_error >>

\* The time box of worker w fires.
PWorkerTimeout(w, dur) ==
    /\ p_workers[w].state = "running"
    /\ dur >= ProjTimeout
    /\ p_workers' = [p_workers EXCEPT ![w] = WorkerTimeout]
    /\ UNCHANGED << p_variant, p_pc, p_outfile, p_i, p_times, p_error >>

\* Mutant of PTakeResult: the results are taken last submitted first.
PTakeResult_reversed ==
    /\ p_pc = "map"
    /\ LET k == NumTrials - Len(p_times) IN
         /\ p_workers[k].state \in {"returned", "raised"}
         /\ IF p_workers[k].state = "raised"
            THEN /\ p_pc' = "exit"
                 /\ UNCHANGED p_times
            ELSE /\ p_times' = Append(p_times, p_workers[k].value)
                 /\ p_pc' = IF k = 1 THEN "aggregate" ELSE "map"
    /\ UNCHANGED << p_variant, p_outfile, p_i, p_workers, p_error >>

\* times = [*executor.map(...)]: the main thread takes the next result, in
\* the order of submission.  The result of a call that raised is the
\* exception, raised again in the main thread: it leaves the list and enters
\* the exit of the with block.
PTakeResult ==
    /\ p_pc = "map"
    /\ LET k == Len(p_times) + 1 IN
         /\ p_workers[k].state \in {"returned", "raised"}
         /\ IF p_workers[k].state = "raised"
            THEN /\ p_pc' = "exit"
                 /\ UNCHANGED p_times
            ELSE /\ p_times' = Append(p_times, p_workers[k].value)
                 /\ p_pc' = IF k = NumTrials THEN "aggregate" ELSE "map"
    /\ UNCHANGED << p_variant, p_outfile, p_i, p_workers, p_error >>

\* ThreadPoolExecutor.__exit__ is shutdown(wait=True): the calls that are
\* running cannot be cancelled and are waited for; then the exception goes on,
\* closes the log and ends the run.
PExitOnError ==
    /\ p_pc = "exit"
    /\ \A w \in Workers : p_workers[w].state # "running"
    /\ p_error' = "Exception"
    /\ p_outfile' = [p_outfile EXCEPT !.open = FALSE]
    /\ p_pc' = "aborted"
    /\ UNCHANGED << p_variant, p_i, p_workers, p_times >>

Values(ts) == [k \in 1..Len(ts) |-> ts[k].v]
\* The first column of a row: f'"{puzzlefile}"' or f'{i}'.
ProjIndex(v, idx) == IF v = "paper" THEN << "paper/*.sudoku", idx >> ELSE << "index", idx >>

\* times = np.array(times); print; outfile.write(row).  With a None among the
\* results the array holds objects and "times < 0." raises TypeError.
PAggregate ==
    /\ p_pc = "aggregate"
    /\ IF \E k \in 1..Len(p_times) : p_times[k] = None
       THEN /\ p_error' = "TypeError"
            /\ p_outfile' = [p_outfile EXCEPT !.open = FALSE]
            /\ p_pc' = "aborted"
            /\ UNCHANGED p_i
       ELSE /\ p_outfile' = [p_outfile EXCEPT !.rows = Append(@,
                  [ index    |-> ProjIndex(p_variant, p_i),
                    unsolved |-> FractionUnsolved(Values(p_times)),
                    average  |-> AverageRemelt(Values(p_times)) ])]
            /\ p_i' = p_i + 1
            /\ p_pc' = "puzzle"
            /\ UNCHANGED p_error
    /\ UNCHANGED << p_variant, p_workers, p_times >>

PFinish ==
    /\ p_pc = "puzzle"
    /\ p_i = NumPuzzles
    /\ p_outfile' = [p_outfile EXCEPT !.open = FALSE]
    /\ p_pc' = "done"
    /\ UNCHANGED << p_variant, p_i, p_workers, p_times, p_error >>

(***************************************************************************)
(* The aggregation of one outcome vector, on its own: the row each of the  *)
(* four annealing benchmarks writes for a given vector.                    *)
(***************************************************************************)
VARIABLES
    g_variant,    \* the benchmark
    g_times,      \* the outcome vector
    g_pc,         \* "input" or "written"
    g_row         \* the row written

gvars == << g_variant, g_times, g_pc, g_row >>

\* Entries of an outcome vector: the sentinel, or an elapsed time in ms.
AggValues == {Sentinel, 8, 12, 90000}
NoRow == [index |-> 0, unsolved |-> NaN, average |-> NaN]

GInit ==
    /\ g_variant \in Variants
    /\ g_times \in [1..NumTrials -> AggValues]
    /\ g_pc = "input"
    /\ g_row = NoRow

GWrite ==
    /\ g_pc = "input"
    /\ g_row' = Row(g_variant, 0, g_times)
    /\ g_pc' = "written"
    /\ UNCHANGED << g_variant, g_times >>

(***************************************************************************)
(* The schedule of one round.  The geometric benchmarks build it in a loop *)
(* of float arithmetic; the remelt benchmarks scale the temperature column *)
(* of the profile that schedule_gen/remelt.py writes.  Floats are modelled *)
(* in fixed point, every product rounded to the nearest unit:              *)
(* temperatures in units of 1/TempUnit, iteration counts in units of       *)
(* 1/IterUnit.                                                             *)
(***************************************************************************)
TempUnit == 10000000
IterUnit == 10000
\* while total_iters < 100_000
GeoBudget == 100000
\* The multipliers rounds are started from: halved up to MaxHalvings times,
\* decayed up to MaxDecay times.
MaxHalvings == 7
MaxDecay == 2
\* The rows of the profile the model keeps.
ProfileRows == 6

\* Mutant of CoolDown: the temperature is not lowered.
CoolDown_flat(x) == x
\* temperature *= 0.99
CoolDown(x) == (x * 99 + 50) \div 100
\* iterations *= 1.01
Grow(x) == (x * 101 + 50) \div 100
\* int(iterations)
PyInt(x) == x \div IterUnit
\* x * 0.5
Halve(x) == (x + 1) \div 2
RECURSIVE Times(_, _, _)
\* x * 0.5^h * 0.99^d, one product at a time
Times(x, h, d) ==
    IF h > 0 THEN Times(Halve(x), h - 1, d)
    ELSE IF d > 0 THEN Times(CoolDown(x), h, d - 1)
    ELSE x
\* The float a multiplier stands for.
TempOf(t) == Times(TempUnit, t.h, t.d)

\* temperature = exp(-tan(time * 0.9 * pi / 2)) * remelts on
\* time = linspace(0, 1, 300), as savetxt writes it with '%12g': the first
\* rows, in millionths.
ProfileTemperature == << 627079, 517176, 787359, 921731, 974210, 972512 >>
\* iterations = exp(time^2 * log(100)) * 100, written with '%d'
ProfileIterations == << 100, 100, 100, 100, 100, 100 >>
\* orig_schedule = np.loadtxt('remelt.schedule')
OrigSchedule ==
    [k \in 1..Min(ProfileRows, Len(ProfileTemperature)) |->
        [temp |-> ProfileTemperature[k] * (TempUnit \div 1000000),
         iters |-> ProfileIterations[k]]]

RECURSIVE Magnitude(_)
\* The power of ten that leaves six digits in front.
Magnitude(x) == IF x < 1000000 THEN 1 ELSE 10 * Magnitude(x \div 10)
\* '%.6g' % x: six significant digits
Fmt6g(x) == ((x + Magnitude(x) \div 2) \div Magnitude(x)) * Magnitude(x)
\* schedule[:,0] *= start_temp
ScaleColumn(sched, t) ==
    [k \in 1..Len(sched) |->
        [temp |-> Times(sched[k].temp, t.h, t.d), iters |-> sched[k].iters]]
\* '\n'.join('%.6g\t%d' % (line[0], line[1]) for line in schedule)
FormatSchedule(sched) ==
    [k \in 1..Len(sched) |-> [temp |-> Fmt6g(sched[k].temp), iters |-> sched[k].iters]]

\* The multipliers start_temp can hold at the top of a round.
RawTemps(policy) ==
    IF policy = "geometric"
    THEN { [h |-> h, d |-> 0] : h \in 0..MaxHalvings }
    ELSE { [h |-> h, d |-> d] : h \in 0..Min(MaxHalvings, MaxDecay), d \in 0..MaxDecay }

VARIABLES
    s_policy,       \* "geometric" or "remelt"
    s_raw,          \* start_temp at the top of the while loop
    s_start,        \* start_temp when the schedule is built
    s_orig,         \* orig_schedule
    s_pc,           \* "start", "loop", "done"
    s_temperature,  \* temperature
    s_iterations,   \* iterations
    s_total_iters,  \* total_iters
    s_lines,        \* the lines of the schedule text: [temp, iters]
    s_emitted       \* the sum of the iteration counts in s_lines

svars == << s_policy, s_raw, s_start, s_orig, s_pc, s_temperature, s_iterations,
            s_total_iters, s_lines, s_emitted >>

\* The top of the while loop has set start_temp for this round.
SInit ==
    /\ s_policy \in {"geometric", "remelt"}
    /\ s_raw \in RawTemps(s_policy)
    /\ s_policy = "remelt" => s_raw.h <= s_raw.d
    /\ s_start = RoundTemp(s_policy, s_raw)
    /\ s_orig = OrigSchedule
    /\ s_pc = "start"
    /\ s_temperature = 0
    /\ s_iterations = 0
    /\ s_total_iters = 0
    /\ s_lines = <<>>
    /\ s_emitted = 0

\* schedule = ''; temperature = copy.copy(start_temp); total_iters = 0; iterations = 1
GeoBegin ==
    /\ s_pc = "start"
    /\ s_policy = "geometric"
    /\ s_temperature' = TempOf(s_start)
    /\ s_total_iters' = 0
    /\ s_iterations' = IterUnit
    /\ s_lines' = <<>>
    /\ s_emitted' = 0
    /\ s_pc' = "loop"
    /\ UNCHANGED << s_policy, s_raw, s_start, s_orig >>

\* while total_iters < 100_000:
\*     schedule += f'{temperature} {int(iterations)}\n'
\*     temperature *= 0.99; iterations *= 1.01; total_iters += iterations
GeoEmit ==
    /\ s_pc = "loop"
    /\ s_total_iters < GeoBudget * IterUnit
    /\ s_lines' = Append(s_lines, [temp |-> s_temperature, iters |-> PyInt(s_iterations)])
    /\ s_emitted' = s_emitted + PyInt(s_iterations)
    /\ s_temperature' = CoolDown(s_temperature)
    /\ s_iterations' = Grow(s_iterations)
    /\ s_total_iters' = s_total_iters + s_iterations'
    /\ UNCHANGED << s_policy, s_raw, s_start, s_orig, s_pc >>

\* The while condition fails: the schedule is complete.
GeoDone ==
    /\ s_pc = "loop"
    /\ ~(s_total_iters < GeoBudget * IterUnit)
    /\ s_pc' = "done"
    /\ UNCHANGED << s_policy, s_raw, s_start, s_orig, s_temperature,
                    s_iterations, s_total_iters, s_lines, s_emitted >>

RECURSIVE SumIters(_)
SumIters(ls) == IF ls = <<>> THEN 0 ELSE ls[1].iters + SumIters(Tail(ls))

\* Mutant of RemeltScale: the profile is scaled in place, without the copy.
RemeltScale_inplace ==
    /\ s_pc = "start"
    /\ s_policy = "remelt"
    /\ s_orig' = ScaleColumn(s_orig, s_start)
    /\ s_lines' = FormatSchedule(s_orig')
    /\ s_emitted' = SumIters(s_lines')
    /\ s_pc' = "done"
    /\ UNCHANGED << s_policy, s_raw, s_start, s_temperature, s_iterations, s_total_iters >>

\* schedule = orig_schedule.copy(); schedule[:,0] *= start_temp; '\n'.join(...)
RemeltScale ==
    /\ s_pc = "start"
    /\ s_policy = "remelt"
    /\ s_lines' = FormatSchedule(ScaleColumn(s_orig, s_start))
    /\ s_emitted' = SumIters(s_lines')
    /\ s_pc' = "done"
    /\ UNCHANGED << s_policy, s_raw, s_start, s_orig, s_temperature,
                    s_iterations, s_total_iters >>

\* The solver has answered and the loop comes round again: a GLASS has halved
\* start_temp, any other answer that keeps the trial going has left it; the
\* top of the loop resets or decays it for the next schedule.
NextRound(glass) ==
    /\ s_pc = "done"
    /\ s_raw' = IF glass THEN Half(s_start) ELSE s_start
    /\ s_raw' \in RawTemps(s_policy)
    /\ s_start' = RoundTemp(s_policy, s_raw')
    /\ s_pc' = "start"
    /\ UNCHANGED << s_policy, s_orig, s_temperature, s_iterations,
                    s_total_iters, s_lines, s_emitted >>

(***************************************************************************)
(* The conversion of a line of the top1465 corpus into the grid handed to  *)
(* the solver, as each of the three benchmarks writes it.                  *)
(***************************************************************************)
\* range(9): the rows of a grid, and the cells of a row
Side == 9
Benchmarks == {"annealing", "projection", "backtrack"}
\* str.replace('.', '_')
Replace(s) == [k \in 1..Len(s) |-> IF s[k] = "." THEN "_" ELSE s[k]]
RECURSIVE Join(_, _)
\* sep.join(parts)
Join(sep, parts) ==
    IF parts = <<>> THEN <<>>
    ELSE IF Len(parts) = 1 THEN parts[1]
    ELSE parts[1] \o sep \o Join(sep, Tail(parts))
\* ' '.join(s): the characters of s with a blank between them
Spaced(s) == Join(<< " " >>, [k \in 1..Len(s) |-> << s[k] >>])
\* benchmark_backtrack:                          s[i*9:(i+1)*9]
\* benchmark_annealing and benchmark_projection: s[i:i+9]
RowSlice(bench, s, r) ==
    IF bench = "backtrack" THEN PySlice(s, r * 9, (r + 1) * 9)
    ELSE PySlice(s, r, r + 9)
\* puzzle = puzzle.strip()
\* puzzle = '\n'.join(' '.join(puzzle.replace('.', '_')[...]) for i in range(9))
ToGrid(bench, raw) ==
    LET puzzle == Strip(raw) IN
    Join(<< NL >>, [r \in 1..Side |-> Spaced(RowSlice(bench, Replace(puzzle), r - 1))])

\* The lines of the corpus the model reads: 81 characters, blank but for one
\* digit, with the line break readlines() leaves at the end.
Blank == [k \in 1..(Side * Side) |-> "."]
CorpusLines == { [Blank EXCEPT ![p] = "7"] \o << NL >> : p \in 1..(Side * Side) }

VARIABLES
    c_bench,      \* which benchmark converts
    c_raw,        \* the line as read
    c_pc,         \* "read", "converted"
    c_puzzle      \* the grid

cvars == << c_bench, c_raw, c_pc, c_puzzle >>

\* for puzzle in top1465.readlines():
CInit ==
    /\ c_bench \in Benchmarks
    /\ c_raw \in CorpusLines
    /\ c_pc = "read"
    /\ c_puzzle = <<>>

\* puzzles.append(puzzle)
Convert ==
    /\ c_pc = "read"
    /\ c_puzzle' = ToGrid(c_bench, c_raw)
    /\ c_pc' = "converted"
    /\ UNCHANGED << c_bench, c_raw >>

(***************************************************************************)
(* benchmark_backtrack: one solver process per puzzle, which runs its own  *)
(* repetitions and prints one time per line, negative for unsolved.        *)
(***************************************************************************)
BackTimeout == 90
BackVariants == {"top1465", "paper"}
BackLogFile(v) == IF v = "top1465" THEN "backtrack.top1465.log" ELSE "backtrack.paper.log"
BackHeader(v) ==
    IF v = "top1465"
    THEN "# <Puzzle index>\t<Unsolved percentage>\t<Average solve time (ms)>\n"
    ELSE "# <Puzzle name>\t<Unsolved fraction>\t<average solve time (ms)>\n"
\* What the process may have printed: lines of one number each.
BackStdouts ==
    { <<>>, << "8" >>, << "-1" >>, << "8", "12" >>, << "-1", "8" >>, << "-1", "-1" >> }
BackResponses == [returncode : {0, 1}, stdout : BackStdouts]
\* np.fromstring(out.stdout, sep='\n')
NumberOf(line) == CASE line = "8" -> 8 [] line = "12" -> 12 [] line = "-1" -> -1
FromString(stdout) == [k \in 1..Len(stdout) |-> NumberOf(stdout[k])]
\* np.count_nonzero(data < 0.)
CountNegative(data) == Len(SelectSeq(data, LAMBDA t : t < 0))
\* unsolved = np.count_nonzero(data < 0.) / data.shape[0]
BackUnsolved(data) == Rat(CountNegative(data), Len(data))
\* top1465: np.average(data[data >= 0.]) if unsolved < 1. else -1.
\* paper:   np.average(data[data >= 0.])
BackSolveTime(v, data) ==
    IF v = "top1465" /\ ~(CountNegative(data) < Len(data))
    THEN [num |-> -1, den |-> 1]
    ELSE Average(NonNegative(data))
\* except subprocess.TimeoutExpired: unsolved = 1.; solve_time = -1.
BackTimeoutRow(idx) ==
    [index |-> idx, unsolved |-> [num |-> 1, den |-> 1], average |-> [num |-> -1, den |-> 1]]
NoProcess == [kind |-> "none", returncode |-> 0, stdout |-> <<>>]

VARIABLES
    b_variant,    \* bench_top1465 or bench_paper
    b_pc,         \* "puzzle", "done", "aborted"
    b_i,          \* index of the puzzle
    b_outfile,    \* the log
    b_error,      \* the exception that ended the run, or "none"
    b_last        \* how the last solver process ended (for the properties)

bvars == << b_variant, b_pc, b_i, b_outfile, b_error, b_last >>

\* with open(LOG, 'w') as outfile: outfile.write(header)
BInit ==
    /\ b_variant \in BackVariants
    /\ b_pc = "puzzle"
    /\ b_i = 0
    /\ b_outfile = [name |-> BackLogFile(b_variant), open |-> TRUE,
                    header |-> BackHeader(b_variant), rows |-> <<>>]
    /\ b_error = "none"
    /\ b_last = NoProcess

\* out = subprocess.run(..., timeout=90) returns within the time box.  The
\* exit code is not looked at: the output is parsed and the row is written.
\* With no number in the output data.shape[0] is 0 and the division raises
\* ZeroDivisionError, which nothing catches.
BackReturns(resp, dur) ==
    /\ b_pc = "puzzle"
    /\ b_i < NumPuzzles
    /\ dur <= BackTimeout
    /\ b_last' = [kind |-> "returned", returncode |-> resp.returncode, stdout |-> resp.stdout]
    /\ LET data == FromString(resp.stdout) IN
         IF Len(data) = 0
         THEN /\ b_error' = "ZeroDivisionError"
              /\ b_outfile' = [b_outfile EXCEPT !.open = FALSE]
              /\ b_pc' = "aborted"
              /\ UNCHANGED b_i
         ELSE /\ b_outfile' = [b_outfile EXCEPT !.rows =
                    Append(@, [index |-> b_i, unsolved |-> BackUnsolved(data),
                               average |-> BackSolveTime(b_variant, data)])]
              /\ b_i' = b_i + 1
              /\ UNCHANGED << b_pc, b_error >>
    /\ UNCHANGED b_variant

\* except subprocess.TimeoutExpired: the row says unsolved, -1.
BackTimesOut(dur) ==
    /\ b_pc = "puzzle"
    /\ b_i < NumPuzzles
    /\ dur >= BackTimeout
    /\ b_last' = [kind |-> "timeout", returncode |-> 0, stdout |-> <<>>]
    /\ b_outfile' = [b_outfile EXCEPT !.rows = Append(@, BackTimeoutRow(b_i))]
    /\ b_i' = b_i + 1
    /\ UNCHANGED << b_variant, b_pc, b_error >>

\* The puzzles are exhausted: the with block closes the log.
BackFinish ==
    /\ b_pc = "puzzle"
    /\ b_i = NumPuzzles
    /\ b_outfile' = [b_outfile EXCEPT !.open = FALSE]
    /\ b_pc' = "done"
    /\ UNCHANGED << b_variant, b_i, b_error, b_last >>

(***************************************************************************)
(* The log files of the annealing benchmarks in the working directory,     *)
(* over several runs of benchmark_annealing.                               *)
(***************************************************************************)
MaxRuns == 3
\* random.randint(0, 1000) is drawn from 0..MaxBak
MaxBak == 1
BakIds == 0..MaxBak
\* The name plot.py loads each benchmark's log under.
PlotLogFile(v) ==
    CASE v = "paper_remelt"      -> "annealing.remelt.log"
      [] v = "paper_geometric"   -> "annealing.paper.log"
      [] v = "top1465_geometric" -> "annealing.top1465.log"
      [] v = "top1465_remelt"    -> "annealing.remelt.top1465.log"
LogNames == {LogFile(v) : v \in Variants} \cup {PlotLogFile(v) : v \in Variants}
\* A file that does not exist, and the header and n rows written by benchmark v.
Absent == [writer |-> "none", rows |-> 0]
Written(v, n) == [writer |-> v, rows |-> n]

VARIABLES
    l_variant,    \* the benchmark function of the current run, "none" before any
    l_pc,         \* position of the current run
    l_runs,       \* number of runs started
    l_files,      \* the log files, by name
    l_baks        \* the backup copies, by log name and random suffix

lvars == << l_variant, l_pc, l_runs, l_files, l_baks >>

LInit ==
    /\ l_variant = "none"
    /\ l_pc = "idle"
    /\ l_runs = 0
    /\ l_files = [n \in LogNames |-> Absent]
    /\ l_baks = [b \in LogNames \X BakIds |-> Absent]

\* main(): the arguments select one of the four benchmark functions.
LStart(v) ==
    /\ l_pc = "idle"
    /\ l_runs < MaxRuns
    /\ l_variant' = v
    /\ l_runs' = l_runs + 1
    /\ l_pc' = "backup"
    /\ UNCHANGED << l_files, l_baks >>

\* if os.path.exists(LOG):
\*     shutil.copy(LOG, f'{LOG}.{random.randint(0, 1000)}.bak'); os.remove(LOG)
LBackup(k) ==
    /\ l_pc = "backup"
    /\ IF l_files[LogFile(l_variant)] # Absent
       THEN /\ l_baks' = [l_baks EXCEPT ![<< LogFile(l_variant), k >>] =
                              l_files[LogFile(l_variant)]]
            /\ l_files' = [l_files EXCEPT ![LogFile(l_variant)] = Absent]
       ELSE UNCHANGED << l_files, l_baks >>
    /\ l_pc' = "open"
    /\ UNCHANGED << l_variant, l_runs >>

\* orig_schedule = np.loadtxt('remelt.schedule', delimiter='\t') raises: the
\* run ends after the backup and before the log is opened.
LLoadFails ==
    /\ l_pc = "open"
    /\ Policy(l_variant) = "remelt"
    /\ l_pc' = "idle"
    /\ UNCHANGED << l_variant, l_runs, l_files, l_baks >>

\* with open(LOG, 'w') as outfile: outfile.write(header)
LOpen ==
    /\ l_pc = "open"
    /\ l_files' = [l_files EXCEPT ![LogFile(l_variant)] = Written(l_variant, 0)]
    /\ l_pc' = "rows"
    /\ UNCHANGED << l_variant, l_runs, l_baks >>

\* outfile.write(f'{i}\t{...}\t{...}\n')
LWriteRow ==
    /\ l_pc = "rows"
    /\ l_files[LogFile(l_variant)].rows < NumPuzzles
    /\ l_files' = [l_files EXCEPT ![LogFile(l_variant)].rows = @ + 1]
    /\ UNCHANGED << l_variant, l_pc, l_runs, l_baks >>

\* The with block is left: the puzzles are exhausted, or exit(1) was called.
LClose ==
    /\ l_pc = "rows"
    /\ l_pc' = "idle"
    /\ UNCHANGED << l_variant, l_runs, l_files, l_baks >>

(***************************************************************************)
(* The specifications.  Each runs one program and leaves the state of the  *)
(* others at rest.                                                         *)
(***************************************************************************)
vars == << avars, pvars, gvars, svars, cvars, bvars, lvars >>

\* The state of a program that is not run.
ARest ==
    /\ variant = "paper_geometric"
    /\ pc = "rest"
    /\ outfile = [name |-> LogFile(variant), open |-> FALSE, header |-> Header, rows |-> <<>>]
    /\ i = 0
    /\ iteration = 0
    /\ times = FreshTimes
    /\ now = 0
    /\ start_time = 0
    /\ start_temp = One
    /\ args = <<>>
    /\ hintfile = ClosedFile
    /\ schedule = GenSchedule(Policy(variant), One)
    /\ error = "none"
    /\ check_elapsed = 0
    /\ expired = FALSE
    /\ returned = 0
    /\ hist = <<>>
PRest ==
    /\ p_variant = "paper"
    /\ p_pc = "rest"
    /\ p_outfile = [name |-> ProjLogFile(p_variant), open |-> FALSE,
                    header |-> Header, rows |-> <<>>]
    /\ p_i = 0
    /\ p_workers = [w \in Workers |-> Idle]
    /\ p_times = <<>>
    /\ p_error = "none"
GRest ==
    /\ g_variant = "paper_geometric"
    /\ g_times = FreshTimes
    /\ g_pc = "rest"
    /\ g_row = NoRow
SRest ==
    /\ s_policy = "geometric"
    /\ s_raw = One
    /\ s_start = One
    /\ s_orig = OrigSchedule
    /\ s_pc = "rest"
    /\ s_temperature = 0
    /\ s_iterations = 0
    /\ s_total_iters = 0
    /\ s_lines = <<>>
    /\ s_emitted = 0
CRest ==
    /\ c_bench = "backtrack"
    /\ c_raw = <<>>
    /\ c_pc = "rest"
    /\ c_puzzle = <<>>
LRest ==
    /\ l_variant = "none"
    /\ l_pc = "rest"
    /\ l_runs = 0
    /\ l_files = [n \in LogNames |-> Absent]
    /\ l_baks = [b \in LogNames \X BakIds |-> Absent]
BRest ==
    /\ b_variant = "paper"
    /\ b_pc = "rest"
    /\ b_i = 0
    /\ b_outfile = [name |-> BackLogFile(b_variant), open |-> FALSE,
                    header |-> BackHeader(b_variant), rows |-> <<>>]
    /\ b_error = "none"
    /\ b_last = NoProcess

\* benchmark_annealing, the whole run.  The run takes the clock read of the
\* SUCCESS branch as immediate; SpecTrial explores the lag of that read.
Init == AInit /\ PRest /\ GRest /\ SRest /\ CRest /\ BRest /\ LRest
Next ==
    \/ StartPuzzle /\ UNCHANGED << pvars, gvars, svars, cvars, bvars, lvars >>
    \/ Finish /\ UNCHANGED << pvars, gvars, svars, cvars, bvars, lvars >>
    \/ StartTrial /\ UNCHANGED << pvars, gvars, svars, cvars, bvars, lvars >>
    \/ \E lag \in Lags : BeginRound(lag) /\ UNCHANGED << pvars, gvars, svars, cvars, bvars, lvars >>
    \/ \E dur \in Durations : SolverTimeout(dur) /\ UNCHANGED << pvars, gvars, svars, cvars, bvars, lvars >>
    \/ \E resp \in Responses, dur \in Durations :
          SolverReturns(resp, dur, 0) /\ UNCHANGED << pvars, gvars, svars, cvars, bvars, lvars >>
    \/ EndTrial /\ UNCHANGED << pvars, gvars, svars, cvars, bvars, lvars >>
    \/ Aggregate /\ UNCHANGED << pvars, gvars, svars, cvars, bvars, lvars >>
Spec == Init /\ [][Next]_vars

\* benchmark_annealing, one trial: the body of "for iteration in range(4)" for
\* the first trial of the first puzzle, up to the end of its while loop.
InitTrial ==
    /\ variant \in Variants
    /\ pc = "trial"
    /\ outfile = [name |-> LogFile(variant), open |-> TRUE, header |-> Header, rows |-> <<>>]
    /\ i = 0
    /\ iteration = 0
    /\ times = FreshTimes
    /\ now = 0
    /\ start_time = 0
    /\ start_temp = One
    /\ args = <<>>
    /\ hintfile = ClosedFile
    /\ schedule = GenSchedule(Policy(variant), One)
    /\ error = "none"
    /\ check_elapsed = 0
    /\ expired = FALSE
    /\ returned = 0
    /\ hist = <<>>
    /\ PRest /\ GRest /\ SRest /\ CRest /\ BRest /\ LRest
NextTrial ==
    \/ StartTrial /\ UNCHANGED << pvars, gvars, svars, cvars, bvars, lvars >>
    \/ \E lag \in Lags : BeginRound(lag) /\ UNCHANGED << pvars, gvars, svars, cvars, bvars, lvars >>
    \/ \E dur \in Durations : SolverTimeout(dur) /\ UNCHANGED << pvars, gvars, svars, cvars, bvars, lvars >>
    \/ \E resp \in Responses, dur \in Durations, lag \in Lags :
          SolverReturns(resp, dur, lag) /\ UNCHANGED << pvars, gvars, svars, cvars, bvars, lvars >>
SpecTrial == InitTrial /\ [][NextTrial]_vars
\* The interpreter keeps running the loop: a step that can be taken is taken.
SpecTrialLive == SpecTrial /\ WF_vars(NextTrial)

\* benchmark_projection
InitProj == PInit /\ ARest /\ GRest /\ SRest /\ CRest /\ BRest /\ LRest
NextProj ==
    \/ PSubmit /\ UNCHANGED << avars, gvars, svars, cvars, bvars, lvars >>
    \/ \E w \in Workers, resp \in ProjResponses, dur \in Durations :
          PWorkerReturns(w, resp, dur) /\ UNCHANGED << avars, gvars, svars, cvars, bvars, lvars >>
    \/ \E w \in Workers, dur \in Durations :
          PWorkerTimeout(w, dur) /\ UNCHANGED << avars, gvars, svars, cvars, bvars, lvars >>
    \/ PTakeResult /\ UNCHANGED << avars, gvars, svars, cvars, bvars, lvars >>
    \/ PExitOnError /\ UNCHANGED << avars, gvars, svars, cvars, bvars, lvars >>
    \/ PAggregate /\ UNCHANGED << avars, gvars, svars, cvars, bvars, lvars >>
    \/ PFinish /\ UNCHANGED << avars, gvars, svars, cvars, bvars, lvars >>
SpecProj == InitProj /\ [][NextProj]_vars

\* the aggregation alone
InitAgg == GInit /\ ARest /\ PRest /\ SRest /\ CRest /\ BRest /\ LRest
NextAgg == GWrite /\ UNCHANGED << avars, pvars, svars, cvars, bvars, lvars >>
SpecAgg == InitAgg /\ [][NextAgg]_vars

\* the schedule of one round
InitGen == SInit /\ ARest /\ PRest /\ GRest /\ CRest /\ BRest /\ LRest
NextGen ==
    \/ GeoBegin /\ UNCHANGED << avars, pvars, gvars, cvars, bvars, lvars >>
    \/ GeoEmit /\ UNCHANGED << avars, pvars, gvars, cvars, bvars, lvars >>
    \/ GeoDone /\ UNCHANGED << avars, pvars, gvars, cvars, bvars, lvars >>
    \/ RemeltScale /\ UNCHANGED << avars, pvars, gvars, cvars, bvars, lvars >>
    \/ \E glass \in BOOLEAN :
          NextRound(glass) /\ UNCHANGED << avars, pvars, gvars, cvars, bvars, lvars >>
SpecGen == InitGen /\ [][NextGen]_vars

\* the conversion of one corpus line
InitConv == CInit /\ ARest /\ PRest /\ GRest /\ SRest /\ BRest /\ LRest
NextConv == Convert /\ UNCHANGED << avars, pvars, gvars, svars, bvars, lvars >>
SpecConv == InitConv /\ [][NextConv]_vars

\* benchmark_backtrack
InitBack == BInit /\ ARest /\ PRest /\ GRest /\ SRest /\ CRest /\ LRest
NextBack ==
    \/ \E resp \in BackResponses, dur \in Durations :
          BackReturns(resp, dur) /\ UNCHANGED << avars, pvars, gvars, svars, cvars, lvars >>
    \/ \E dur \in Durations :
          BackTimesOut(dur) /\ UNCHANGED << avars, pvars, gvars, svars, cvars, lvars >>
    \/ BackFinish /\ UNCHANGED << avars, pvars, gvars, svars, cvars, lvars >>
SpecBack == InitBack /\ [][NextBack]_vars

\* benchmark_annealing run several times in one working directory.
InitLogs == LInit /\ ARest /\ PRest /\ GRest /\ SRest /\ CRest /\ BRest
NextLogs ==
    \/ \E v \in Variants : LStart(v) /\ UNCHANGED << avars, pvars, gvars, svars, cvars, bvars >>
    \/ \E k \in BakIds : LBackup(k) /\ UNCHANGED << avars, pvars, gvars, svars, cvars, bvars >>
    \/ LLoadFails /\ UNCHANGED << avars, pvars, gvars, svars, cvars, bvars >>
    \/ LOpen /\ UNCHANGED << avars, pvars, gvars, svars, cvars, bvars >>
    \/ LWriteRow /\ UNCHANGED << avars, pvars, gvars, svars, cvars, bvars >>
    \/ LClose /\ UNCHANGED << avars, pvars, gvars, svars, cvars, bvars >>
SpecLogs == InitLogs /\ [][NextLogs]_vars

(***************************************************************************)
(* Properties of the reanneal loop.                                        *)
(***************************************************************************)
\* The slot of the outcome vector the current trial writes.
Slot == times[iteration + 1]
Geometric == Policy(variant) = "geometric"
Remelt == Policy(variant) = "remelt"
Results == [k \in 1..Len(hist) |-> hist[k].result]
Bases == [k \in 1..Len(hist) |-> hist[k].base]
\* The trial has left its loop through one of the two deadline breaks.
TimedOut == pc = "trial_end" /\ expired /\ Slot = Sentinel

\* C1, as stated: the deadline is checked before every solver invocation, and
\* no solver process is started for an attempt whose remaining budget
\* (trial_start + 90 s - now) is <= 0 when the solver would be invoked.
C1_NoProcessWithoutBudget ==
    \A k \in 1..Len(hist) : hist[k].timeout > 0

\* C1, amended: every solver process is started right after a deadline check
\* that saw at most 90 s elapsed; a check that sees more than 90 s ends the
\* trial as TIMED_OUT without starting a process; a process started with a
\* time box <= 0 (the check passed at exactly 90 s) is cut off at once and the
\* trial ends as TIMED_OUT.
C1_DeadlineCheckedBeforeInvocation ==
    /\ \A k \in 1..Len(hist) :
          /\ hist[k].checked <= TrialBudget
          /\ hist[k].timeout <= TrialBudget - hist[k].checked
    /\ (pc \in {"running", "trial_end"} /\ check_elapsed > TrialBudget) =>
          /\ TimedOut
          /\ \A k \in 1..Len(hist) :
                hist[k].checked < check_elapsed /\ hist[k].result # "RUNNING"
    /\ \A k \in 1..Len(hist) :
          hist[k].timeout <= 0 =>
             /\ hist[k].result \in {"RUNNING", "TIMEOUT"}
             /\ hist[k].result = "TIMEOUT" => (k = Len(hist) /\ TimedOut)

\* C1, witness: a trial ended by the deadline check after three processes.
C1_Witness ==
    /\ pc = "trial_end"
    /\ check_elapsed > TrialBudget
    /\ expired
    /\ Len(hist) = 3
    /\ Last(hist).result = "GLASS"

\* C2: a geometric trial whose solver outcomes are GLASS, GLASS, SUCCESS made
\* exactly three invocations, and their schedules were generated from the
\* base temperatures 1.0, 0.5 and 0.25.
C2_GlassGlassSuccess ==
    ( /\ Geometric
      /\ Len(hist) >= 3
      /\ hist[1].result = "GLASS"
      /\ hist[2].result = "GLASS"
      /\ hist[3].result = "SUCCESS" ) =>
        /\ Len(hist) = 3
        /\ pc = "trial_end"
        /\ Bases = << [h |-> 0, d |-> 0], [h |-> 1, d |-> 0], [h |-> 2, d |-> 0] >>

\* C2, witness: such a trial, ended.
C2_Witness ==
    /\ Geometric
    /\ pc = "trial_end"
    /\ Results = << "GLASS", "GLASS", "SUCCESS" >>
    /\ Slot = 90000

C4_FirstSuccess ==
    (Len(hist) >= 1 /\ hist[1].result = "SUCCESS") =>
        /\ Len(hist) = 1
        /\ pc = "trial_end"
        /\ Slot > 0
        /\ Slot = (now - start_time) * 1000

\* C4, witness: a trial ended by the SUCCESS of its first invocation.
C4_Witness ==
    /\ pc = "trial_end"
    /\ Results = << "SUCCESS" >>
    /\ Slot = 60000

\* C5: once a trial has seen its deadline pass (by the check or by the time
\* box of an invocation), it is over as TIMED_OUT and starts no further
\* solver process.
C5_NoInvocationAfterExpiry ==
    /\ [](expired => TimedOut)
    /\ [][expired => (pc' # "running" /\ Len(hist') <= Len(hist))]_vars

\* C5, witness: expiry detected by the time box after two GLASS outcomes.
C5_Witness ==
    /\ expired
    /\ Len(hist) = 3
    /\ hist[1].result = "GLASS"
    /\ hist[2].result = "GLASS"
    /\ hist[3].result = "TIMEOUT"

\* C6: an invocation timeout raises no error and leaves the sentinel in the
\* slot of its trial; the run goes on with the next trial and the next
\* puzzle; a row is written only after four trials, and a run that is not
\* aborted by a non-zero exit ends with one row per puzzle.
C6_TimeoutIsLocal ==
    /\ []( /\ (Len(hist) > 0 /\ Last(hist).result = "TIMEOUT") =>
                (error = "none" /\ pc = "trial_end" /\ Slot = Sentinel)
           /\ error # "none" => (Len(hist) > 0 /\ Last(hist).result = "NONZERO")
           /\ pc = "aggregate" => iteration = NumTrials
           /\ pc = "done" =>
                /\ Len(outfile.rows) = NumPuzzles
                /\ \A j \in 1..NumPuzzles : outfile.rows[j].index = j - 1 )
    /\ [][ (Len(hist) > 0 /\ Last(hist).result = "TIMEOUT") =>
              /\ iteration' = iteration + 1
              /\ times' = times
              /\ error' = "none"
              /\ pc' = IF iteration < NumTrials - 1 THEN "trial" ELSE "aggregate" ]_vars

\* C6, witness: every trial of the first puzzle failed, and the second puzzle
\* is being tried and has itself just met an invocation timeout.
C6_Witness ==
    /\ i = 1
    /\ Len(outfile.rows) = 1
    /\ outfile.rows[1].unsolved = [num |-> 1, den |-> 1]
    /\ pc = "trial_end"
    /\ iteration = 2
    /\ Last(hist).result = "TIMEOUT"

\* C7: a non-zero solver exit ends the run: the error is raised, the log gets
\* no row for the current puzzle, and nothing happens afterwards (no solver
\* process, no row).
C7_NonZeroExitAborts ==
    /\ []( (Len(hist) > 0 /\ Last(hist).result = "NONZERO") =>
              /\ pc = "aborted"
              /\ error # "none"
              /\ ~outfile.open
              /\ Len(outfile.rows) = i )
    /\ [][pc # "aborted"]_vars

\* C7, witness: the run aborted in the third trial of the second puzzle, after
\* a GLASS.
C7_Witness ==
    /\ pc = "aborted"
    /\ i = 1
    /\ iteration = 2
    /\ Results = << "GLASS", "NONZERO" >>
    /\ Len(outfile.rows) = 1

\* C9, as stated: an exit-0 output whose state tag is missing or is neither
\* GLASS nor SUCCESS is a fatal parse error that aborts the run.
C9_MalformedOutputIsFatal ==
    \A k \in 1..Len(hist) : hist[k].result = "OTHER" => pc = "aborted"


(***************************************************************************)
(* Properties of the thread-pool benchmark (under SpecProj).               *)
(***************************************************************************)
\* C8, as stated: once a worker of the pool has met a non-zero solver exit, no
\* other worker that is still running goes on to return from its call.
C8_FatalExitHaltsPool ==
    [][ (\E w \in Workers : p_workers[w].state = "raised") =>
           \A w \in Workers :
              p_workers[w].state = "running" => p_workers'[w].state # "returned" ]_vars

(***************************************************************************)
(* Properties of the aggregation (under SpecAgg).                          *)
(***************************************************************************)
SolvedSlots(ts) == { k \in 1..Len(ts) : ts[k] # Sentinel }
RECURSIVE SumSlots(_, _)
SumSlots(ts, S) ==
    IF S = {} THEN 0
    ELSE LET k == CHOOSE x \in S : TRUE IN ts[k] + SumSlots(ts, S \ {k})

\* C10: for an outcome vector of 4 trials with at least one success, the row
\* written has fraction_unsolved = (number of sentinel entries) / 4 and
\* average_solve_time_ms = the mean of exactly the non-sentinel entries, in
\* each of the four annealing benchmarks.
C10_AggregateRecord ==
    (g_pc = "written" /\ SolvedSlots(g_times) # {}) =>
        LET solved == SolvedSlots(g_times) IN
        /\ g_row.unsolved.den > 0
        /\ g_row.unsolved.num * 4 = (4 - Cardinality(solved)) * g_row.unsolved.den
        /\ g_row.average.den > 0
        /\ g_row.average.num * Cardinality(solved) =
              SumSlots(g_times, solved) * g_row.average.den

\* C10, witness: [12.0, sentinel, sentinel, 8.0] gives 0.5 and 10.0.
C10_Witness ==
    /\ g_pc = "written"
    /\ g_variant = "top1465_geometric"
    /\ g_times = << 12, Sentinel, Sentinel, 8 >>
    /\ g_row.unsolved = [num |-> 1, den |-> 2]
    /\ g_row.average = [num |-> 10, den |-> 1]

\* C11, as stated: when all 4 trials of a puzzle failed, the row holds one
\* chosen value for average_solve_time_ms, the same in each of the four
\* annealing benchmarks, and not the average of an empty selection.
C11_AllFailedConvention ==
    (g_pc = "written" /\ SolvedSlots(g_times) = {}) =>
        /\ g_row.average # NaN
        /\ \A v \in Variants : AverageSolveTime(v, g_times) = g_row.average

(***************************************************************************)
(* Properties of the hint file and of the state of a trial (under Spec).   *)
(***************************************************************************)
\* C12: after every GLASS outcome the hint file of the trial holds exactly the
\* terminal board that invocation returned (earlier content is gone, nothing
\* is appended), and the next invocation of the trial is passed the hint file
\* and finds that board in it.
C12_HintIsLastGlassBoard ==
    \A k \in 1..Len(hist) :
        hist[k].result = "GLASS" =>
            IF k < Len(hist)
            THEN /\ hist[k + 1].args = << "hintfile" >>
                 /\ hist[k + 1].hint = hist[k].final
            ELSE /\ hintfile.open
                 /\ hintfile.data = hist[k].final
                 /\ args = << "hintfile" >>

\* C12, witness: GLASS with board 1, GLASS with board 2, and a third process
\* started on the hint file holding board 2 alone.
C12_Witness ==
    /\ pc = "running"
    /\ Len(hist) = 3
    /\ hist[1].result = "GLASS" /\ hist[1].final = << "1" >>
    /\ hist[2].result = "GLASS" /\ hist[2].final = << "2" >>
    /\ hist[2].hint = << "1" >>
    /\ hist[3].args = << "hintfile" >>
    /\ hist[3].hint = << "2" >>

\* C13: the hint file of a trial is open only while the trial runs; when the
\* trial has ended, by SUCCESS, by either deadline break or by the exception
\* of a non-zero exit, the file is closed and gone.
C13_HintReleasedAtTrialEnd ==
    pc \notin {"check", "running", "trial_end"} => hintfile = ClosedFile

\* C13, witness: the second trial of a puzzle died of a non-zero exit after a
\* GLASS had written the hint; the first trial had timed out.
C13_Witness ==
    /\ pc = "aborted"
    /\ iteration = 1
    /\ times[1] = Sentinel
    /\ Results = << "GLASS", "NONZERO" >>
    /\ hist[2].hint = hist[1].final
    /\ hintfile = ClosedFile

\* C14: every trial starts fresh: before its first invocation start_temp is
\* 1.0, there is no hint argument, the hint file is empty and the clock of
\* the trial starts at its own start; the first invocation is passed no hint,
\* its schedule comes from the start value, and its time box is the whole
\* budget less what the trial itself has used.
C14_TrialStartsFresh ==
    /\ (pc = "check" /\ hist = <<>>) =>
          /\ start_temp = One
          /\ args = <<>>
          /\ hintfile = [open |-> TRUE, data |-> <<>>]
          /\ now = start_time
          /\ Slot = Sentinel
    /\ Len(hist) >= 1 =>
          /\ hist[1].args = <<>>
          /\ hist[1].hint = <<>>
          /\ hist[1].base = IF Geometric THEN [h |-> 0, d |-> 0] ELSE [h |-> 0, d |-> 1]
          /\ hist[1].checked \in Lags
          /\ hist[1].timeout = TrialBudget - hist[1].checked

\* C14, witness: the second trial of a puzzle about to begin its loop; the
\* first trial timed out after a GLASS and left a schedule built from 0.5.
C14_Witness ==
    /\ pc = "check"
    /\ hist = <<>>
    /\ iteration = 1
    /\ times[1] = Sentinel
    /\ schedule.scale = [h |-> 1, d |-> 0]
    /\ start_temp = One
    /\ args = <<>>

\* C15, as stated: in a remelt trial the first invocation gets the reference
\* profile scaled by the start value 1.0; the 0.99 decay acts on later
\* attempts only.
C15_FirstRemeltUnscaled ==
    (Remelt /\ Len(hist) >= 1) => hist[1].base = One

(***************************************************************************)
(* Properties of the schedule of one round (under SpecGen).                *)
(***************************************************************************)
SGeometric == s_policy = "geometric"
\* ceil of a fixed-point iteration count
Ceiling(x) == (x + IterUnit - 1) \div IterUnit
RECURSIVE Pow101(_)
\* 1.01^k
Pow101(k) == IF k = 0 THEN IterUnit ELSE Grow(Pow101(k - 1))

\* C16, as stated: when the generation of a geometric schedule stops, the
\* iteration counts written into the schedule text add up to at least the
\* budget of 100,000.
C16_EmittedReachesBudget ==
    (SGeometric /\ s_pc = "done") => s_emitted >= GeoBudget

\* C17: in a geometric schedule, from any start temperature a round can
\* have, the temperatures written are strictly decreasing and the iteration
\* counts written are non-decreasing along the lines.
C17_GeometricMonotone ==
    SGeometric =>
        \A k \in 1..(Len(s_lines) - 1) :
            /\ s_lines[k + 1].temp < s_lines[k].temp
            /\ s_lines[k + 1].iters >= s_lines[k].iters

\* C17, witness: the complete schedule from the lowest start temperature,
\* 0.5^6, from a first line with 1 iteration to a last with more than 900.
C17_Witness ==
    /\ SGeometric
    /\ s_pc = "done"
    /\ s_start = [h |-> 6, d |-> 0]
    /\ Len(s_lines) > 600
    /\ s_lines[1].iters = 1
    /\ s_lines[1].temp = TempUnit \div 64
    /\ Last(s_lines).iters > 900
    /\ Last(s_lines).temp > 0

\* C18, as stated: line k (k = 0, 1, ...) of a geometric schedule is the pair
\* (start_temperature * 0.99^k, ceil(1.01^k)).
C18_PairIsCeiling ==
    SGeometric =>
        \A k \in 1..Len(s_lines) :
            /\ s_lines[k].temp = Times(TempOf(s_start), 0, k - 1)
            /\ s_lines[k].iters = Ceiling(Pow101(k - 1))

\* C19, as stated: a complete schedule, geometric or the remelt profile
\* scaled by the multiplier of the round, never rises in temperature from
\* one line to the next.
C19_TemperatureNonIncreasing ==
    s_pc = "done" =>
        \A k \in 1..(Len(s_lines) - 1) : s_lines[k + 1].temp <= s_lines[k].temp

(***************************************************************************)
(* Properties of the outcome vector (under Spec and SpecProj).             *)
(***************************************************************************)
\* C20, as stated: when the row of a puzzle is computed, every entry of the
\* outcome vector is the sentinel or a positive elapsed time in ms, whatever
\* the solver answered, in the annealing loop and in the pool of the
\* projection benchmark.
C20_OutcomeIsSentinelOrTime ==
    /\ pc = "aggregate" =>
          \A k \in 1..Len(times) : times[k] = Sentinel \/ times[k] > 0
    /\ p_pc = "aggregate" =>
          \A k \in 1..Len(p_times) :
              /\ p_times[k].tag = "num"
              /\ p_times[k].v = Sentinel \/ p_times[k].v > 0

(***************************************************************************)
(* Properties of one trial (under SpecTrial and SpecTrialLive).            *)
(***************************************************************************)
TrialOver == pc \in {"trial_end", "aborted"}

\* C24: every trial comes to its end (SUCCESS, TIMED_OUT or the fatal error)
\* whatever the solver answers, endless GLASS and endless unknown state lines
\* included, as long as the loop keeps running and every invocation returns
\* or is cut off within its time box.
C24_TrialTerminates == <>TrialOver

\* C24, witness: a trial that saw GLASS, an unknown state line and GLASS again,
\* and was ended by the deadline check.
C24_Witness ==
    /\ pc = "trial_end"
    /\ expired
    /\ check_elapsed > TrialBudget
    /\ Results = << "GLASS", "OTHER", "GLASS" >>

\* C29: within a trial the hint file and the hint argument change on a GLASS
\* outcome only (and when the fatal error releases the file): a SUCCESS, a
\* timeout and an exit-0 answer with any other state line leave both as they
\* were, and in the geometric benchmarks leave start_temp as it was.
C29_HintChangesOnlyOnGlass ==
    /\ [][ (pc = "running" /\ pc' # "running"
              /\ Last(hist').result \in {"SUCCESS", "TIMEOUT", "OTHER"}) =>
                 /\ hintfile' = hintfile
                 /\ args' = args
                 /\ Geometric => start_temp' = start_temp ]_vars
    /\ [][ (pc \in {"check", "running"} /\ (hintfile' # hintfile \/ args' # args)) =>
              (pc = "running" /\ Last(hist').result \in {"GLASS", "NONZERO"}) ]_vars

\* C29, witness: a geometric trial after GLASS and then an unknown state line:
\* the hint is still the board of the GLASS, start_temp still 0.5.
C29_Witness ==
    /\ Geometric
    /\ pc = "check"
    /\ Results = << "GLASS", "OTHER" >>
    /\ hintfile.data = hist[1].final
    /\ hintfile.data # <<>>
    /\ args = << "hintfile" >>
    /\ start_temp = [h |-> 1, d |-> 0]

C23_OneRowPerPuzzleInOrder ==
    /\ []( /\ outfile.header = Header
           /\ Len(outfile.rows) = i
           /\ \A j \in 1..Len(outfile.rows) : outfile.rows[j].index = j - 1
           /\ pc = "done" => Len(outfile.rows) = NumPuzzles )
    /\ [][ outfile'.rows # outfile.rows =>
              /\ pc = "aggregate"
              /\ iteration = NumTrials
              /\ hist = <<>>
              /\ hintfile = ClosedFile
              /\ Len(outfile'.rows) = Len(outfile.rows) + 1
              /\ SubSeq(outfile'.rows, 1, Len(outfile.rows)) = outfile.rows
              /\ Last(outfile'.rows) = Row(variant, i, times) ]_vars

\* C23, witness: the run is done; the first puzzle failed in all its trials,
\* the second succeeded in every one.
C23_Witness ==
    /\ pc = "done"
    /\ Len(outfile.rows) = 2
    /\ outfile.rows[1].index = 0
    /\ outfile.rows[1].unsolved = [num |-> 1, den |-> 1]
    /\ outfile.rows[2].index = 1
    /\ outfile.rows[2].unsolved = [num |-> 0, den |-> 1]

\* C25: at most one solver process is in progress at any time: a process is
\* started only when every earlier process of the trial has returned or has
\* been cut off, and a trial starts only when the trial before it has ended.
C25_OneProcessAtATime ==
    /\ []( /\ \A k \in 1..Len(hist) :
                hist[k].result = "RUNNING" => (k = Len(hist) /\ pc = "running")
           /\ pc = "running" => (Len(hist) >= 1 /\ Last(hist).result = "RUNNING")
           /\ pc = "trial" => (hist = <<>> /\ hintfile = ClosedFile) )
    /\ [][ Len(hist') > Len(hist) =>
              /\ pc = "check"
              /\ pc' = "running"
              /\ Len(hist') = Len(hist) + 1
              /\ \A k \in 1..Len(hist) : hist[k].result # "RUNNING" ]_vars
    /\ [][ (pc # "check" /\ pc' = "check" /\ hist' = <<>>) => pc = "trial" ]_vars

\* C25, witness: the third process of the second trial of a puzzle is running;
\* the two before it ended with GLASS.
C25_Witness ==
    /\ pc = "running"
    /\ iteration = 1
    /\ Results = << "GLASS", "GLASS", "RUNNING" >>

(***************************************************************************)
(* Properties of the pool of the projection benchmark (under SpecProj).    *)
(***************************************************************************)
NoneRunning == \A w \in Workers : p_workers[w].state # "running"

\* C26: the pool is a barrier for each puzzle: the 4 repetitions of a puzzle
\* are started together, the row of the puzzle is computed only when all 4
\* have returned, no repetition of the next puzzle starts while one of this
\* puzzle is running, and slot j of the outcome vector holds what the j-th
\* submitted repetition returned, in whatever order they finished.
C26_PoolIsBarrier ==
    /\ []( /\ \A j \in 1..Len(p_times) : p_times[j] = p_workers[j].value
           /\ p_pc = "aggregate" =>
                 /\ Len(p_times) = NumTrials
                 /\ \A w \in Workers : p_workers[w].state = "returned"
           /\ p_pc = "puzzle" => NoneRunning )
    /\ [][ (\E w \in Workers : p_workers[w].state # "running"
                                 /\ p_workers'[w].state = "running") =>
              /\ p_pc = "puzzle"
              /\ NoneRunning
              /\ \A w \in Workers : p_workers'[w].state = "running" ]_vars
    /\ [][ p_outfile'.rows # p_outfile.rows =>
              (p_pc = "aggregate" /\ NoneRunning
                 /\ Len(p_outfile'.rows) = Len(p_outfile.rows) + 1) ]_vars

\* C26, witness: in the second puzzle the repetition submitted last finished
\* first (30 s) and the one submitted first finished last (90 s); each is in
\* its own slot.
C26_Witness ==
    /\ p_pc = "aggregate"
    /\ p_i = 1
    /\ p_times = << Num(3 * Quantum * 1000), Num(Sentinel),
                    Num(2 * Quantum * 1000), Num(Quantum * 1000) >>

(***************************************************************************)
(* Properties of the conversion of a corpus line (under SpecConv).         *)
(***************************************************************************)
\* The character of cell (r, c) of a grid text: rows of 9 cells with a blank
\* between cells and a line break between rows.
CellAt(grid, r, c) == grid[r * (2 * Side) + 2 * c + 1]

\* C21, as stated: the grid made from an 81-character line has 9 rows; row r
\* holds the characters 9r .. 9r+8 of the line, '.' turned into '_', with a
\* blank between them, so that every one of the 81 cells is there once, row
\* by row; in the annealing, projection and backtrack benchmarks alike.
C21_GridIsRowMajor ==
    c_pc = "converted" =>
        LET line == Strip(c_raw) IN
        /\ Len(line) = Side * Side
        /\ Len(c_puzzle) = Side * (2 * Side - 1) + (Side - 1)
        /\ \A r \in 0..(Side - 1), c \in 0..(Side - 1) :
              CellAt(c_puzzle, r, c) =
                 (IF line[Side * r + c + 1] = "." THEN "_" ELSE line[Side * r + c + 1])
        /\ \A k \in 1..Len(c_puzzle) :
              k % (2 * Side) = 0 => c_puzzle[k] = NL
        /\ \A k \in 1..Len(c_puzzle) :
              (k % (2 * Side) # 0 /\ (k % (2 * Side)) % 2 = 0) => c_puzzle[k] = " "

(***************************************************************************)
(* Properties of benchmark_backtrack (under SpecBack).                     *)
(***************************************************************************)
\* C22, as stated: in the backtrack benchmark a non-zero exit of the solver
\* process ends the whole run, and no row is written for the puzzle from what
\* the failed process printed.
C22_BacktrackNonZeroIsFatal ==
    (b_last.kind = "returned" /\ b_last.returncode # 0) =>
        /\ b_pc = "aborted"
        /\ Len(b_outfile.rows) = b_i

(***************************************************************************)
(* Properties of the multiplier and of the profile (under SpecGen).        *)
(***************************************************************************)
\* C27: in a geometric trial the start temperature a schedule is generated
\* from lies in [0.01, 1.0] whatever the outcomes were: a start_temp halved
\* below 0.01 is set back to 1.0 before the schedule is generated, any other
\* is used as it is, and none is above 1.0.
C27_GeometricStartInRange ==
    SGeometric =>
        /\ s_start.d = 0
        /\ s_start.h >= 0
        /\ Pow(2, s_start.h) <= 100
        /\ TempOf(s_start) <= TempUnit
        /\ 100 * TempOf(s_start) >= TempUnit
        /\ s_start = IF Pow(2, s_raw.h) > 100 THEN One ELSE s_raw
        /\ (s_pc \in {"loop", "done"} /\ Len(s_lines) >= 1) =>
              s_lines[1].temp = TempOf(s_start)

\* C27, witness: seven GLASS outcomes in a row have brought start_temp to
\* 0.5^7 < 0.01; the schedule of the next round starts from 1.0 again.
C27_Witness ==
    /\ SGeometric
    /\ s_pc = "done"
    /\ s_raw = [h |-> 7, d |-> 0]
    /\ s_start = One
    /\ s_lines[1].temp = TempUnit

\* C28: in the remelt benchmarks the profile that was loaded is never changed;
\* the schedule of every round is that profile with its temperatures times
\* the multiplier of the round alone (no scaling is carried over from earlier
\* rounds), and its iteration column is the one of the profile.
C28_ProfileIsNeverModified ==
    /\ s_orig = OrigSchedule
    /\ (~SGeometric /\ s_pc = "done") =>
          /\ Len(s_lines) = Len(OrigSchedule)
          /\ \A k \in 1..Len(s_lines) :
                /\ s_lines[k].iters = OrigSchedule[k].iters
                /\ s_lines[k].temp =
                      Fmt6g(Times(OrigSchedule[k].temp, s_start.h, s_start.d))

\* C28, witness: the schedule of a remelt round after a GLASS, scaled by
\* 0.5 * 0.99^2: less than half the profile, which is as it was loaded.
C28_Witness ==
    /\ ~SGeometric
    /\ s_pc = "done"
    /\ s_raw = [h |-> 1, d |-> 1]
    /\ s_start = [h |-> 1, d |-> 2]
    /\ s_orig[1].temp = 627079 * (TempUnit \div 1000000)
    /\ 2 * s_lines[1].temp < s_orig[1].temp
    /\ 4 * s_lines[1].temp > s_orig[1].temp

(***************************************************************************)
(* Properties of the log files over several runs.                          *)
(***************************************************************************)
\* C31, as stated: each of the four annealing benchmarks writes its records to
\* its own log file: a run of one benchmark never backs up, removes or
\* overwrites a log file that holds the records of another benchmark.
C31_OwnLogFile ==
    [][\A n \in LogNames :
          (l_files[n].writer \in Variants /\ l_files[n].writer # l_variant')
              => l_files'[n] = l_files[n]]_vars

=============================================================================
